---------------------------- MODULE Spec2Model ----------------------------
(***************************************************************************)
(* Model of the PR Analyser userscript (src/bitbucket-pr-analyser.js):     *)
(* the change data retrieval, the four analysers, the analyse() run and    *)
(* the tracking comment / task requests it sends to the review server.     *)
(*                                                                         *)
(* Strings that the code inspects with includes()/toLowerCase() are        *)
(* sequences of one-character strings; message texts and extensions, which *)
(* the code only compares for equality, are TLA+ strings.                  *)
(***************************************************************************)
EXTENDS Integers, Sequences, FiniteSets, TLC

(***************************************************************************)
(* String helpers (String.prototype.includes / toLowerCase)                *)
(***************************************************************************)
UpperChars == <<"A", "B", "C", "D", "E", "F", "G", "H", "I", "J", "K", "L", "M", "N", "O", "P", "Q", "R", "S", "T", "U", "V", "W", "X", "Y", "Z">>

LowerChars == <<"a", "b", "c", "d", "e", "f", "g", "h", "i", "j", "k", "l", "m", "n", "o", "p", "q", "r", "s", "t", "u", "v", "w", "x", "y", "z">>

toLowerCaseChar(c) ==
    IF \E i \in DOMAIN UpperChars : UpperChars[i] = c
    THEN LowerChars[CHOOSE i \in DOMAIN UpperChars : UpperChars[i] = c]
    ELSE c

toLowerCase(s) == [i \in 1..Len(s) |-> toLowerCaseChar(s[i])]

includes(s, sub) ==
    \E i \in 0..(Len(s) - Len(sub)) : SubSeq(s, i + 1, i + Len(sub)) = sub

\* Array.prototype.concat as used on the task list
concat_prepending(a, b) == b \o a

concat(a, b) == a \o b

\* Array.prototype.reverse
reverse_identity(a) == a

reverse(a) == [i \in 1..Len(a) |-> a[Len(a) + 1 - i]]

RECURSIVE Flatten(_)
\* concatenation of a sequence of sequences, in order
Flatten(ss) == IF ss = <<>> THEN <<>> ELSE Head(ss) \o Flatten(Tail(ss))

(***************************************************************************)
(* Literals of the source                                                  *)
(***************************************************************************)
STR_mssql == <<"/", "m", "s", "s", "q", "l", "/">>

STR_oracle == <<"/", "o", "r", "a", "c", "l", "e", "/">>

STR_create_table == <<"c", "r", "e", "a", "t", "e", " ", "t", "a", "b", "l", "e">>

STR_drop_table == <<"d", "r", "o", "p", " ", "t", "a", "b", "l", "e">>

STR_dot_equals == <<".", "e", "q", "u", "a", "l", "s">>

STR_StringUtils == <<"S", "t", "r", "i", "n", "g", "U", "t", "i", "l", "s">>

CHANGE_THRESHOLD == 100

MSG_VOLUME == "Significant changes - check if automated tests are required."

MSG_MSSQL_ONLY == "MSSQL updated but not Oracle. Check this is ok."

MSG_ORACLE_ONLY == "Oracle updated but not MSSQL. Check this is ok."

MSG_NOTIFY == "(On merge) Notify the team that there are database changes that need to be applied."

MSG_DROP == "Create table but no drop table. Need to update the drop scripts?"

MSG_DOT_EQUALS == "Found uses of .equals. Review these to check if StringUtils methods are a more appropriate choice."

PARENT_COMMENT_TEXT == "_Auto-generated comment from PR Analyser_"

(***************************************************************************)
(* Change data: extractSegments, fetchChangePaths, fetchChanges            *)
(*                                                                         *)
(* A diff response is [hasDiffs, diffs]; a diff is [hasHunks, hunks]; a    *)
(* hunk is [segments]; a segment is [type, lines]; a line item is [line].  *)
(* hasDiffs / hasHunks = FALSE stand for an absent (falsy) field.          *)
(***************************************************************************)
\* segments = hunk.segments in place of the concatenation
extractSegments_keeping_last_hunk(response) ==
    LET all == IF ~response.hasDiffs
               THEN <<>>
               ELSE Flatten([d \in 1..Len(response.diffs) |->
                        IF ~response.diffs[d].hasHunks
                        THEN <<>>
                        ELSE [h \in 1..Len(response.diffs[d].hunks) |->
                                 response.diffs[d].hunks[h].segments]])
    IN IF all = <<>> THEN <<>> ELSE all[Len(all)]

extractSegments(response) ==
    IF ~response.hasDiffs
    THEN <<>>
    ELSE Flatten([d \in 1..Len(response.diffs) |->
             IF ~response.diffs[d].hasHunks
             THEN <<>>
             ELSE Flatten([h \in 1..Len(response.diffs[d].hunks) |->
                      response.diffs[d].hunks[h].segments])])

\* the change list entry kept for one value of the /changes response
fetchChangePaths(values) ==
    [i \in 1..Len(values) |->
        [path |-> values[i].path,
         name |-> values[i].name,
         extension |-> values[i].extension]]

\* a changed file after its diff has been attached (file.segments = x)
WithSegments(file, segments) ==
    [path |-> file.path, name |-> file.name, extension |-> file.extension,
     segments |-> segments]

(***************************************************************************)
(* Analyser util                                                           *)
(***************************************************************************)
\* the changes for which checkPaths invokes its callback, in order
checkPaths(changes, pathSubstring) ==
    SelectSeq(changes, LAMBDA change : includes(change.path, pathSubstring))

\* the lines for which checkLines invokes its callback, in order
checkLines_all_segment_types(changes, extension) ==
    Flatten([c \in 1..Len(changes) |->
        IF changes[c].extension # extension
        THEN <<>>
        ELSE Flatten([s \in 1..Len(changes[c].segments) |->
                 [l \in 1..Len(changes[c].segments[s].lines) |->
                     changes[c].segments[s].lines[l].line]])])

checkLines(changes, extension) ==
    Flatten([c \in 1..Len(changes) |->
        IF changes[c].extension # extension
        THEN <<>>
        ELSE Flatten([s \in 1..Len(changes[c].segments) |->
                 IF changes[c].segments[s].type # "ADDED"
                 THEN <<>>
                 ELSE [l \in 1..Len(changes[c].segments[s].lines) |->
                          changes[c].segments[s].lines[l].line]])])

(***************************************************************************)
(* Analysers                                                               *)
(***************************************************************************)
analyseNumberOfChanges_at_least(changes) ==
    LET numLinesJS == Len(checkLines(changes, "js"))
        numLinesJava == Len(checkLines(changes, "java"))
    IN IF numLinesJS + numLinesJava >= CHANGE_THRESHOLD
       THEN <<MSG_VOLUME>> ELSE <<>>

analyseNumberOfChanges(changes) ==
    LET numLinesJS == Len(checkLines(changes, "js"))
        numLinesJava == Len(checkLines(changes, "java"))
    IN IF numLinesJS + numLinesJava > CHANGE_THRESHOLD
       THEN <<MSG_VOLUME>> ELSE <<>>

analyseDBScriptSynergy_always_asymmetric(changes) ==
    LET containsMssqlChanges == checkPaths(changes, STR_mssql) # <<>>
        containsOracleChanges == checkPaths(changes, STR_oracle) # <<>>
    IN (IF containsMssqlChanges THEN <<MSG_MSSQL_ONLY>> ELSE <<>>)
       \o (IF ~containsMssqlChanges /\ containsOracleChanges
           THEN <<MSG_ORACLE_ONLY>> ELSE <<>>)
       \o (IF containsMssqlChanges \/ containsOracleChanges
           THEN <<MSG_NOTIFY>> ELSE <<>>)

analyseDBScriptSynergy(changes) ==
    LET containsMssqlChanges == checkPaths(changes, STR_mssql) # <<>>
        containsOracleChanges == checkPaths(changes, STR_oracle) # <<>>
    IN (IF containsMssqlChanges /\ ~containsOracleChanges
        THEN <<MSG_MSSQL_ONLY>> ELSE <<>>)
       \o (IF ~containsMssqlChanges /\ containsOracleChanges
           THEN <<MSG_ORACLE_ONLY>> ELSE <<>>)
       \o (IF containsMssqlChanges \/ containsOracleChanges
           THEN <<MSG_NOTIFY>> ELSE <<>>)

analyseDropScriptsNeeded_case_sensitive(changes) ==
    LET lines == checkLines(changes, "sql")
        containsCreateTable ==
            \E i \in DOMAIN lines : includes(lines[i], STR_create_table)
        containsDropTable ==
            \E i \in DOMAIN lines : includes(lines[i], STR_drop_table)
    IN IF containsCreateTable /\ ~containsDropTable
       THEN <<MSG_DROP>> ELSE <<>>

analyseDropScriptsNeeded(changes) ==
    LET lines == checkLines(changes, "sql")
        containsCreateTable ==
            \E i \in DOMAIN lines :
                includes(toLowerCase(lines[i]), STR_create_table)
        containsDropTable ==
            \E i \in DOMAIN lines :
                includes(toLowerCase(lines[i]), STR_drop_table)
    IN IF containsCreateTable /\ ~containsDropTable
       THEN <<MSG_DROP>> ELSE <<>>

analyseUseOfDotEquals_any_line_has_StringUtils(changes) ==
    LET lines == checkLines(changes, "java")
    IN IF (\E i \in DOMAIN lines : includes(lines[i], STR_dot_equals))
          /\ ~(\E i \in DOMAIN lines : includes(lines[i], STR_StringUtils))
       THEN <<MSG_DOT_EQUALS>> ELSE <<>>

analyseUseOfDotEquals(changes) ==
    LET lines == checkLines(changes, "java")
        containsDotEquals ==
            \E i \in DOMAIN lines :
                /\ includes(lines[i], STR_dot_equals)
                /\ ~includes(lines[i], STR_StringUtils)
    IN IF containsDotEquals THEN <<MSG_DOT_EQUALS>> ELSE <<>>

(***************************************************************************)
(* Sample review content                                                   *)
(***************************************************************************)
LineX == <<"x">>

LineCreateUpper == <<"C", "R", "E", "A", "T", "E", " ", "T", "A", "B", "L", "E", " ", "f", "o", "o">>

LineCreateLower == <<"c", "r", "e", "a", "t", "e", " ", "t", "a", "b", "l", "e", " ", "f", "o", "o">>

LineDropMixed == <<"D", "r", "o", "p", " ", "T", "a", "b", "l", "e", " ", "f", "o", "o">>

LineDotEquals == <<"a", ".", "e", "q", "u", "a", "l", "s", "(", "b", ")">>

LineStringUtils == <<"S", "t", "r", "i", "n", "g", "U", "t", "i", "l", "s", ".", "e", "q", "u", "a", "l", "s", "(", "a", ",", "b", ")">>

PathJs == <<"s", "r", "c", "/", "a", "p", "p", ".", "j", "s">>

PathJava == <<"s", "r", "c", "/", "A", ".", "j", "a", "v", "a">>

PathJavaUpper == <<"s", "r", "c", "/", "B", ".", "J", "A", "V", "A">>

PathMssql == <<"d", "b", "/", "m", "s", "s", "q", "l", "/", "t", ".", "s", "q", "l">>

PathOracle == <<"d", "b", "/", "o", "r", "a", "c", "l", "e", "/", "t", ".", "s", "q", "l">>

PathBoth == <<"x", "/", "m", "s", "s", "q", "l", "/", "o", "r", "a", "c", "l", "e", "/", "b", ".", "s", "q", "l">>

PathTxt == <<"d", "o", "c", "/", "m", "s", "s", "q", "l", ".", "t", "x", "t">>

Rep(line, n) == [i \in 1..n |-> [line |-> line]]

Seg(type, lines) == [type |-> type, lines |-> lines]

Hunk(segments) == [segments |-> segments]

Diff(hunks) == [hasHunks |-> TRUE, hunks |-> hunks]

DiffWithoutHunks == [hasHunks |-> FALSE, hunks |-> <<>>]

Response(diffs) == [hasDiffs |-> TRUE, diffs |-> diffs]

ResponseWithoutDiffs == [hasDiffs |-> FALSE, diffs |-> <<>>]

OneHunk(segments) == Response(<<Diff(<<Hunk(segments)>>)>>)

File(path, name, extension, response) ==
    [path |-> path, name |-> name, extension |-> extension,
     response |-> response]

\* a segment of each non-ADDED type holding every pattern the analysers look for
Decoys ==
    <<Seg("REMOVED", Rep(LineDotEquals, 1) \o Rep(LineCreateLower, 1)
                     \o Rep(LineDropMixed, 1)),
      Seg("CONTEXT", Rep(LineDotEquals, 1) \o Rep(LineCreateUpper, 1)
                     \o Rep(LineDropMixed, 1) \o Rep(LineX, 1))>>

Half == CHANGE_THRESHOLD \div 2

JavaBig ==
    File(PathJava, "A.java", "java",
         OneHunk(<<Seg("ADDED", Rep(LineX, CHANGE_THRESHOLD)),
                   Seg("ADDED", Rep(LineDotEquals, 1))>>))

MssqlCreate ==
    File(PathMssql, "t.sql", "sql", OneHunk(<<Seg("ADDED", Rep(LineCreateUpper, 1))>>))

OracleDrop ==
    File(PathOracle, "t.sql", "sql", OneHunk(<<Seg("ADDED", Rep(LineDropMixed, 1))>>))

JsFiles ==
    { File(PathJs, "app.js", "js", r) : r \in
        { OneHunk(<<Seg("ADDED", Rep(LineX, CHANGE_THRESHOLD))>>),
          OneHunk(<<Seg("ADDED", Rep(LineX, CHANGE_THRESHOLD + 1))>>),
          Response(<<Diff(<<Hunk(<<Seg("ADDED", Rep(LineX, Half))>> \o Decoys),
                           Hunk(<<Seg("ADDED", Rep(LineDotEquals, CHANGE_THRESHOLD - Half))>>)>>)>>),
          OneHunk(Decoys \o <<Seg("ADDED", Rep(LineX, Half))>>),
          OneHunk(<<Seg("ADDED", Rep(LineX, Half))>>) } }

JavaFiles ==
    { File(PathJava, "A.java", "java", r) : r \in
        { OneHunk(<<Seg("ADDED", Rep(LineDotEquals, 1))>>),
          OneHunk(<<Seg("ADDED", Rep(LineStringUtils, 1))>>),
          OneHunk(<<Seg("ADDED", Rep(LineStringUtils, 1) \o Rep(LineDotEquals, 2))>>),
          OneHunk(Decoys \o <<Seg("ADDED", Rep(LineX, 1))>>),
          OneHunk(<<Seg("ADDED", Rep(LineX, 1))>>),
          Response(<<Diff(<<Hunk(<<Seg("ADDED", Rep(LineX, Half))>>)>>),
                     DiffWithoutHunks,
                     Diff(<<Hunk(<<Seg("ADDED", Rep(LineX, Half + 1))>>)>>)>>),
          OneHunk(<<Seg("ADDED", Rep(LineX, CHANGE_THRESHOLD)),
                    Seg("ADDED", Rep(LineDotEquals, 1))>>) } }

MssqlFiles ==
    { File(PathMssql, "t.sql", "sql", r) : r \in
        { OneHunk(<<Seg("ADDED", Rep(LineCreateUpper, 1))>>),
          OneHunk(<<Seg("ADDED", Rep(LineDropMixed, 1) \o Rep(LineCreateLower, 1))>>),
          OneHunk(<<Seg("ADDED", Rep(LineCreateLower, 1))>> \o Decoys),
          OneHunk(<<Seg("ADDED", Rep(LineCreateLower, 1))>>) } }

OracleFiles ==
    { File(PathOracle, "t.sql", "sql", r) : r \in
        { OneHunk(<<Seg("ADDED", Rep(LineDropMixed, 1))>>),
          OneHunk(<<Seg("ADDED", Rep(LineCreateLower, 1)),
                    Seg("ADDED", Rep(LineX, 1))>>),
          OneHunk(Decoys),
          ResponseWithoutDiffs } }

OtherFiles ==
    { File(PathTxt, "mssql.txt", "txt",
           OneHunk(<<Seg("ADDED", Rep(LineDotEquals, CHANGE_THRESHOLD + 1)
                                  \o Rep(LineCreateUpper, 1)
                                  \o Rep(LineDropMixed, 1))>>)),
      File(PathTxt, "mssql.txt", "txt", OneHunk(<<Seg("ADDED", Rep(LineX, 1))>>)),
      File(PathJavaUpper, "B.JAVA", "JAVA",
           OneHunk(<<Seg("ADDED", Rep(LineDotEquals, 1))>>)),
      File(PathBoth, "b.sql", "sql", Response(<<DiffWithoutHunks>>)) }

FileSamples == JsFiles \cup JavaFiles \cup MssqlFiles \cup OracleFiles \cup OtherFiles

MaxFiles == 2

\* the change lists of a review: up to MaxFiles files, no path twice
ChangeLists(files, n) ==
    { c \in UNION { [1..k -> files] : k \in 0..n } :
        \A i, j \in DOMAIN c : i # j => c[i].path # c[j].path }

(***************************************************************************)
(* State                                                                   *)
(***************************************************************************)
NumSessions == 2

Sessions == 1..NumSessions

VARIABLES
    \* --- the review server (external collaborator) ---
    prChanges,  \* the review's files with their diff responses
    feed,       \* the review's activity feed, in the order the server lists it
    newestFirst,\* whether the server lists new activities first or last
    net,        \* requests issued and not yet answered
    \* --- one browser session per page that has the script loaded ---
    pc,              \* where the session's script is suspended
    parentCommentId, \* analyse: const parentCommentId
    changedFiles,    \* fetchChanges: let changedFiles
    runTasks,        \* analyse: let tasks (after the reversal)
    i,               \* the loop index of the loop the session is suspended in
    uncaught,        \* what the session's script threw that nothing caught ("" = nothing)
    \* --- history of the session's latest run ---
    issued,     \* the requests the run has issued, in order
    received,   \* the task creations of the run the server has carried out
    completed,  \* the run has called window.location.reload()
    callStart,  \* the calls of addParentComment that had returned, the review
                \* unchanged since, when the run's own call began
    callReturn, \* the id addParentComment returned to the run, and whether the
                \* review is unchanged since
    \* --- the analysis of one change list in isolation ---
    changes,    \* const changes = await fetchChanges()
    tasks,      \* let tasks
    returned,   \* the list returned by the analyser called last
    line        \* the statement of analyse() that runs next

sessionVars == <<pc, parentCommentId, changedFiles, runTasks, i, uncaught>>

historyVars == <<issued, received, completed, callStart, callReturn>>

serverVars == <<feed, newestFirst, net>>

pipeVars == <<changes, tasks, returned, line>>

vars == <<prChanges, serverVars, sessionVars, historyVars, pipeVars>>

(***************************************************************************)
(* The analysis of one change list, step by step (analyse, lines 218-227)  *)
(***************************************************************************)
\* fetchChanges run to completion against the review
fetchChanges(values) ==
    LET files == fetchChangePaths(values)
    IN [k \in 1..Len(files) |->
           WithSegments(files[k], extractSegments(values[k].response))]

\* lines 220-225: the concatenation of the four analysers' findings
Pipeline(cs) ==
    concat(concat(concat(concat(<<>>, analyseNumberOfChanges(cs)),
                         analyseDBScriptSynergy(cs)),
                  analyseDropScriptsNeeded(cs)),
           analyseUseOfDotEquals(cs))

NoSessions ==
    /\ feed = <<>>
    /\ newestFirst = TRUE
    /\ net = {}
    /\ pc = [s \in Sessions |-> "closed"]
    /\ parentCommentId = [s \in Sessions |-> 0]
    /\ changedFiles = [s \in Sessions |-> <<>>]
    /\ runTasks = [s \in Sessions |-> <<>>]
    /\ i = [s \in Sessions |-> 0]
    /\ uncaught = [s \in Sessions |-> ""]
    /\ issued = [s \in Sessions |-> <<>>]
    /\ received = [s \in Sessions |-> <<>>]
    /\ completed = [s \in Sessions |-> FALSE]
    /\ callStart = [s \in Sessions |-> {}]
    /\ callReturn = [s \in Sessions |-> [done |-> FALSE, id |-> 0, quiet |-> FALSE]]

PipeInit ==
    /\ prChanges \in ChangeLists(FileSamples, MaxFiles)
    /\ changes = <<>>
    /\ tasks = <<>>
    /\ returned = <<>>
    /\ line = 218
    /\ NoSessions

PipeUnchanged == UNCHANGED <<prChanges, serverVars, sessionVars, historyVars>>

Line218 ==
    /\ line = 218
    /\ changes' = fetchChanges(prChanges)
    /\ tasks' = <<>>
    /\ line' = 222
    /\ UNCHANGED returned
    /\ PipeUnchanged

Line222 ==
    /\ line = 222
    /\ returned' = analyseNumberOfChanges(changes)
    /\ tasks' = concat(tasks, returned')
    /\ line' = 223
    /\ UNCHANGED changes
    /\ PipeUnchanged

Line223 ==
    /\ line = 223
    /\ returned' = analyseDBScriptSynergy(changes)
    /\ tasks' = concat(tasks, returned')
    /\ line' = 224
    /\ UNCHANGED changes
    /\ PipeUnchanged

Line224 ==
    /\ line = 224
    /\ returned' = analyseDropScriptsNeeded(changes)
    /\ tasks' = concat(tasks, returned')
    /\ line' = 225
    /\ UNCHANGED changes
    /\ PipeUnchanged

Line225 ==
    /\ line = 225
    /\ returned' = analyseUseOfDotEquals(changes)
    /\ tasks' = concat(tasks, returned')
    /\ line' = 227
    /\ UNCHANGED changes
    /\ PipeUnchanged

Line227 ==
    /\ line = 227
    /\ tasks' = reverse(tasks)
    /\ line' = 229
    /\ UNCHANGED <<changes, returned>>
    /\ PipeUnchanged

PipeNext == Line218 \/ Line222 \/ Line223 \/ Line224 \/ Line225 \/ Line227

PipeSpec == PipeInit /\ [][PipeNext]_vars

(***************************************************************************)
(* The review server and the browser sessions                              *)
(***************************************************************************)
ACTIVITIES_LIMIT == 500

NoComment == [id |-> 0, text |-> "", tasks |-> <<>>]

CommentActivity(id, text) ==
    [hasComment |-> TRUE, comment |-> [id |-> id, text |-> text, tasks |-> <<>>]]

\* the feed of a review before any analysis: an approval and a reviewer's remark
InitialFeeds ==
    { <<[hasComment |-> FALSE, comment |-> NoComment],
        CommentActivity(1, "Looks good to me")>> }

\* n remarks of reviewers
Remarks(n) == [k \in 1..n |-> CommentActivity(k, "Looks good to me")]

\* the feeds of reviews with a long history: one activity short of the page
\* that GET activities?limit=500 returns, exactly that page, and that page
\* followed by the tracking comment of an earlier analysis
BusyFeeds ==
    { Remarks(ACTIVITIES_LIMIT - 1),
      Remarks(ACTIVITIES_LIMIT),
      Append(Remarks(ACTIVITIES_LIMIT),
             CommentActivity(ACTIVITIES_LIMIT + 1, PARENT_COMMENT_TEXT)) }

\* change lists of the reviews that several sessions run against: 0 and 3 findings
ReviewSamples == { <<>>, <<MssqlCreate>> }

\* change lists of the reviews that one session runs against: 0, 2, 3 and 5 findings
SoloSamples == { <<>>, <<OracleDrop>>, <<MssqlCreate>>, <<JavaBig, MssqlCreate>> }

Min(a, b) == IF a < b THEN a ELSE b

\* GET activities?limit=500: the first page of the feed
Activities(f) == SubSeq(f, 1, Min(Len(f), ACTIVITIES_LIMIT))

\* POST comments: the feed with a new comment of that text
PostComment(f, text) ==
    LET a == CommentActivity(Len(f) + 1, text)
    IN IF newestFirst THEN <<a>> \o f ELSE Append(f, a)

\* POST tasks: the feed with the task attached to the comment it is anchored to
PostTask(f, r) ==
    [k \in 1..Len(f) |->
        IF f[k].hasComment /\ r.anchorType = "COMMENT" /\ f[k].comment.id = r.anchorId
        THEN [f[k] EXCEPT !.comment.tasks = Append(@, [text |-> r.text, state |-> r.state])]
        ELSE f[k]]

IsParentComment(activityItem) ==
    activityItem.hasComment /\ activityItem.comment.text = PARENT_COMMENT_TEXT

\* getParentComment: index in the response of the first activity whose comment
\* text is the sentinel; 0 stands for undefined
getParentComment(values) ==
    IF \E k \in DOMAIN values : IsParentComment(values[k])
    THEN CHOOSE k \in DOMAIN values :
            IsParentComment(values[k]) /\ \A j \in 1..(k - 1) : ~IsParentComment(values[j])
    ELSE 0

Request(s, n, kind) ==
    [session |-> s, n |-> n, kind |-> kind, path |-> <<>>, text |-> "",
     anchorId |-> 0, anchorType |-> "", state |-> ""]

\* the task created as already resolved
addTask_resolved(s, n, text, commentId) ==
    [Request(s, n, "POST tasks") EXCEPT
        !.text = text, !.anchorId = commentId, !.anchorType = "COMMENT",
        !.state = "RESOLVED"]

\* the request sent by addTask(text, commentId)
addTask(s, n, text, commentId) ==
    [Request(s, n, "POST tasks") EXCEPT
        !.text = text, !.anchorId = commentId, !.anchorType = "COMMENT", !.state = "OPEN"]

\* the request sent by fetchChangeDetail(filePath)
fetchChangeDetail(s, n, filePath) ==
    [Request(s, n, "GET diff") EXCEPT !.path = filePath]

\* the page load request of initialiseAnalyserContainer (not part of a run)
LoadRequest(s) == Request(s, 0, "GET activities")

\* the diffs requested together instead of one after the other
fetchChangesLoop_not_awaited(files, k) ==
    IF k = 1 THEN [j \in 1..Len(files) |-> j] ELSE <<>>

\* lines 70-74: the loop positions whose fetchChangeDetail request is issued
\* when the loop is at position k, before fetchChanges() suspends again
fetchChangesLoop(files, k) == IF k <= Len(files) THEN <<k>> ELSE <<>>

\* lines 229-231: the loop positions whose addTask request is issued when the
\* loop is at position k, before analyse() suspends again
addTaskLoop_not_awaited(ts, k) ==
    IF k = 1 THEN [j \in 1..Len(ts) |-> j] ELSE <<>>

addTaskLoop(ts, k) == IF k <= Len(ts) THEN <<k>> ELSE <<>>

NoCall == [done |-> FALSE, id |-> 0, quiet |-> FALSE]

\* line 216, parentComment.comment.id with parentComment undefined
ERR_UNDEFINED == "TypeError: parentComment is undefined"

\* a rejected fetch() or response.json()
ERR_REQUEST == "request failed"

\* a request has changed the review
Disturbed(calls) == [t \in Sessions |-> [calls[t] EXCEPT !.quiet = FALSE]]

\* the history of a run is kept until the page that follows it has loaded
ForgetRun(s) ==
    /\ issued' = [issued EXCEPT ![s] = <<>>]
    /\ received' = [received EXCEPT ![s] = <<>>]
    /\ completed' = [completed EXCEPT ![s] = FALSE]
    /\ callStart' = [t \in Sessions |-> IF t = s THEN {} ELSE callStart[t] \ {s}]
    /\ callReturn' = [callReturn EXCEPT ![s] = NoCall]

\* the exception handled by loading the page anew
Abort_reloading(s, others) ==
    /\ pc' = [pc EXCEPT ![s] = "loading"]
    /\ net' = others \cup { LoadRequest(s) }
    /\ parentCommentId' = [parentCommentId EXCEPT ![s] = 0]
    /\ changedFiles' = [changedFiles EXCEPT ![s] = <<>>]
    /\ runTasks' = [runTasks EXCEPT ![s] = <<>>]
    /\ i' = [i EXCEPT ![s] = 0]

\* analyse() or initialiseAnalyserContainer() has thrown: nothing catches it,
\* the function never resumes and its locals are unreachable
Abort(s, others) ==
    /\ pc' = [pc EXCEPT ![s] = "aborted"]
    /\ net' = others
    /\ parentCommentId' = [parentCommentId EXCEPT ![s] = 0]
    /\ changedFiles' = [changedFiles EXCEPT ![s] = <<>>]
    /\ runTasks' = [runTasks EXCEPT ![s] = <<>>]
    /\ i' = [i EXCEPT ![s] = 0]

\* the pages of the sessions in open have just been loaded: each has sent its
\* page load lookup; the other sessions have no page open
LoadedOn(open, samples, feeds) ==
    /\ prChanges \in samples
    /\ feed \in feeds
    /\ newestFirst \in BOOLEAN
    /\ net = { LoadRequest(s) : s \in open }
    /\ pc = [s \in Sessions |-> IF s \in open THEN "loading" ELSE "closed"]
    /\ parentCommentId = [s \in Sessions |-> 0]
    /\ changedFiles = [s \in Sessions |-> <<>>]
    /\ runTasks = [s \in Sessions |-> <<>>]
    /\ i = [s \in Sessions |-> 0]
    /\ uncaught = [s \in Sessions |-> ""]
    /\ issued = [s \in Sessions |-> <<>>]
    /\ received = [s \in Sessions |-> <<>>]
    /\ completed = [s \in Sessions |-> FALSE]
    /\ callStart = [s \in Sessions |-> {}]
    /\ callReturn = [s \in Sessions |-> NoCall]
    /\ changes = <<>>
    /\ tasks = <<>>
    /\ returned = <<>>
    /\ line = 0

Loaded(open, samples) == LoadedOn(open, samples, InitialFeeds)

Init == Loaded(Sessions, ReviewSamples)

SoloInit == Loaded({1}, SoloSamples)

\* one page loaded on a review with a long history
BusyInit == LoadedOn({1}, ReviewSamples, BusyFeeds)

\* initialiseAnalyserContainer, lines 317-339: the page load lookup returns
LoadReturnsAt(r) ==
    LET s == r.session
        values == Activities(feed)
        parentComment == getParentComment(values)
    IN /\ r \in net /\ r.kind = "GET activities" /\ pc[s] = "loading"
       /\ pc' = [pc EXCEPT ![s] =
                    IF parentComment = 0 THEN "button"
                    ELSE IF Len(values[parentComment].comment.tasks) = 0
                         THEN "allgood" ELSE "list"]
       /\ net' = net \ {r}
       /\ ForgetRun(s)
       /\ UNCHANGED <<prChanges, feed, newestFirst, parentCommentId, changedFiles,
                      runTasks, i, uncaught, pipeVars>>

\* the positions in the feed of the comments whose text is the sentinel
TrackingComments ==
    { k \in DOMAIN feed : feed[k].hasComment /\ feed[k].comment.text = PARENT_COMMENT_TEXT }

\* the analyses of a review are counted up to MaxComments tracking comments,
\* those being created included
MaxComments == 2

\* the Analyse button's onclick: analyse() runs up to the POST of line 243
ClickIn(s) ==
    /\ pc[s] = "button"
    /\ Cardinality(TrackingComments)
          + Cardinality({ q \in net : q.kind = "POST comments" }) < MaxComments
    /\ pc' = [pc EXCEPT ![s] = "addParentComment"]
    /\ net' = net \cup { Request(s, 1, "POST comments") }
    /\ issued' = [issued EXCEPT ![s] = << Request(s, 1, "POST comments") >>]
    /\ received' = [received EXCEPT ![s] = <<>>]
    /\ completed' = [completed EXCEPT ![s] = FALSE]
    /\ callStart' = [t \in Sessions |->
                        IF t = s
                        THEN { u \in Sessions \ {s} : callReturn[u].done /\ callReturn[u].quiet }
                        ELSE callStart[t] \ {s}]
    /\ callReturn' = [callReturn EXCEPT ![s] = NoCall]
    /\ UNCHANGED <<prChanges, feed, newestFirst, parentCommentId, changedFiles,
                   runTasks, i, uncaught, pipeVars>>

\* addParentComment, lines 243-252: the comment is created, the lookup is sent
CommentPostedAt(r) ==
    LET s == r.session
        next == Request(s, Len(issued[s]) + 1, "GET activities")
    IN /\ r \in net /\ r.kind = "POST comments" /\ pc[s] = "addParentComment"
       /\ feed' = PostComment(feed, PARENT_COMMENT_TEXT)
       /\ pc' = [pc EXCEPT ![s] = "getParentComment"]
       /\ net' = (net \ {r}) \cup {next}
       /\ issued' = [issued EXCEPT ![s] = Append(@, next)]
       /\ callReturn' = Disturbed(callReturn)
       /\ UNCHANGED <<prChanges, newestFirst, parentCommentId, changedFiles, runTasks, i,
                      uncaught, received, completed, callStart, pipeVars>>

\* line 216 with optional chaining: undefined is read instead of throwing
commentIdThrows_optional_chaining(parentComment) == FALSE

\* line 216: parentComment.comment.id throws when parentComment is undefined
commentIdThrows(parentComment) == parentComment = 0

\* lines 252, 215-218 and 28-30: the lookup returns; parentComment.comment.id
\* throws when nothing was found, else the change list is requested
ParentCommentReturnsAt(r) ==
    LET s == r.session
        values == Activities(feed)
        parentComment == getParentComment(values)
        id == IF parentComment = 0 THEN 0 ELSE values[parentComment].comment.id
        next == Request(s, Len(issued[s]) + 1, "GET changes")
    IN /\ r \in net /\ r.kind = "GET activities" /\ pc[s] = "getParentComment"
       /\ IF commentIdThrows(parentComment)
          THEN /\ Abort(s, net \ {r})
               /\ uncaught' = [uncaught EXCEPT ![s] = ERR_UNDEFINED]
               /\ ForgetRun(s)
          ELSE /\ pc' = [pc EXCEPT ![s] = "fetchChangePaths"]
               /\ parentCommentId' = [parentCommentId EXCEPT ![s] = id]
               /\ net' = (net \ {r}) \cup {next}
               /\ issued' = [issued EXCEPT ![s] = Append(@, next)]
               /\ callReturn' = [callReturn EXCEPT ![s] =
                                    [done |-> TRUE, id |-> id, quiet |-> TRUE]]
               /\ UNCHANGED <<changedFiles, runTasks, i, uncaught, received, completed,
                              callStart>>
       /\ UNCHANGED <<prChanges, feed, newestFirst, pipeVars>>

\* window.location.reload() and the page load lookup of the new page
ReloadPage(s, others) ==
    /\ pc' = [pc EXCEPT ![s] = "loading"]
    /\ net' = others \cup { LoadRequest(s) }
    /\ parentCommentId' = [parentCommentId EXCEPT ![s] = 0]
    /\ changedFiles' = [changedFiles EXCEPT ![s] = <<>>]
    /\ runTasks' = [runTasks EXCEPT ![s] = <<>>]
    /\ i' = [i EXCEPT ![s] = 0]
    /\ uncaught' = [uncaught EXCEPT ![s] = ""]

\* analyse() returning without the reload of line 233
ReloadAfterAnalysis_omitted(s, others) ==
    /\ pc' = [pc EXCEPT ![s] = "returned"]
    /\ net' = others
    /\ parentCommentId' = [parentCommentId EXCEPT ![s] = 0]
    /\ changedFiles' = [changedFiles EXCEPT ![s] = <<>>]
    /\ runTasks' = [runTasks EXCEPT ![s] = <<>>]
    /\ i' = [i EXCEPT ![s] = 0]
    /\ UNCHANGED <<uncaught, completed>>

\* line 233: the run ends by reloading the page, which shows its outcome
ReloadAfterAnalysis(s, others) ==
    /\ ReloadPage(s, others)
    /\ completed' = [completed EXCEPT ![s] = TRUE]

\* analyse, lines 220-233, once fetchChanges has returned cs: the findings are
\* collected and reversed, then the first task is sent or the page reloaded
\* (files and ts are the values of the local variables changes and tasks)
Publish(r, cs) ==
    \E files \in {cs} : \E ts \in {reverse(Pipeline(files))} :
    LET s == r.session
        positions == addTaskLoop(ts, 1)
        reqs == [k \in 1..Len(positions) |->
                    addTask(s, Len(issued[s]) + k, ts[positions[k]], parentCommentId[s])]
    IN IF ts = <<>>
       THEN /\ ReloadAfterAnalysis(s, net \ {r})
            /\ UNCHANGED issued
       ELSE /\ pc' = [pc EXCEPT ![s] = "addTask"]
            /\ changedFiles' = [changedFiles EXCEPT ![s] = files]
            /\ runTasks' = [runTasks EXCEPT ![s] = ts]
            /\ i' = [i EXCEPT ![s] = 1]
            /\ net' = (net \ {r}) \cup { reqs[k] : k \in DOMAIN reqs }
            /\ issued' = [issued EXCEPT ![s] = @ \o reqs]
            /\ UNCHANGED <<parentCommentId, uncaught, completed>>

\* fetchChangePaths returns (lines 30-40, 69-72): the first diff is requested,
\* or with no changed file the run goes on to the analysis
ChangePathsReturnAt(r) ==
    LET s == r.session
        files == fetchChangePaths(prChanges)
        positions == fetchChangesLoop(files, 1)
        reqs == [k \in 1..Len(positions) |->
                    fetchChangeDetail(s, Len(issued[s]) + k, files[positions[k]].path)]
    IN /\ r \in net /\ r.kind = "GET changes" /\ pc[s] = "fetchChangePaths"
       /\ IF Len(files) = 0
          THEN Publish(r, files)
          ELSE /\ pc' = [pc EXCEPT ![s] = "fetchChangeDetail"]
               /\ changedFiles' = [changedFiles EXCEPT ![s] = files]
               /\ i' = [i EXCEPT ![s] = 1]
               /\ net' = (net \ {r}) \cup { reqs[k] : k \in DOMAIN reqs }
               /\ issued' = [issued EXCEPT ![s] = @ \o reqs]
               /\ UNCHANGED <<parentCommentId, runTasks, uncaught, completed>>
       /\ UNCHANGED <<prChanges, feed, newestFirst, received, callStart, callReturn,
                      pipeVars>>

\* the diff the server holds for a path
DiffOf(filePath) ==
    LET k == CHOOSE k \in DOMAIN prChanges : prChanges[k].path = filePath
    IN prChanges[k].response

\* fetchChangeDetail returns (lines 44-46, 70-75): the segments are attached to
\* file i, then the next diff is requested or the run goes on to the analysis
ChangeDetailReturnsAt(r) ==
    LET s == r.session
        x == extractSegments(DiffOf(r.path))
        files == [changedFiles[s] EXCEPT ![i[s]] = WithSegments(@, x)]
        positions == fetchChangesLoop(files, i[s] + 1)
        reqs == [k \in 1..Len(positions) |->
                    fetchChangeDetail(s, Len(issued[s]) + k, files[positions[k]].path)]
    IN /\ r \in net /\ r.kind = "GET diff" /\ pc[s] = "fetchChangeDetail"
       /\ IF i[s] = Len(files)
          THEN Publish(r, files)
          ELSE /\ changedFiles' = [changedFiles EXCEPT ![s] = files]
               /\ i' = [i EXCEPT ![s] = @ + 1]
               /\ net' = (net \ {r}) \cup { reqs[k] : k \in DOMAIN reqs }
               /\ issued' = [issued EXCEPT ![s] = @ \o reqs]
               /\ UNCHANGED <<pc, parentCommentId, runTasks, uncaught, completed>>
       /\ UNCHANGED <<prChanges, feed, newestFirst, received, callStart, callReturn,
                      pipeVars>>

\* addTask returns (lines 229-233): the server has attached the task; the loop
\* sends the next one, or after the last one the page is reloaded
TaskAddedAt(r) ==
    LET s == r.session
        positions == addTaskLoop(runTasks[s], i[s] + 1)
        reqs == [k \in 1..Len(positions) |->
                    addTask(s, Len(issued[s]) + k, runTasks[s][positions[k]],
                            parentCommentId[s])]
    IN /\ r \in net /\ r.kind = "POST tasks" /\ pc[s] = "addTask"
       /\ feed' = PostTask(feed, r)
       /\ received' = [received EXCEPT ![s] = Append(@, r)]
       /\ IF i[s] = Len(runTasks[s])
          THEN /\ ReloadAfterAnalysis(s, net \ {r})
               /\ UNCHANGED issued
          ELSE /\ i' = [i EXCEPT ![s] = @ + 1]
               /\ net' = (net \ {r}) \cup { reqs[k] : k \in DOMAIN reqs }
               /\ issued' = [issued EXCEPT ![s] = @ \o reqs]
               /\ UNCHANGED <<pc, parentCommentId, changedFiles, runTasks, uncaught,
                              completed>>
       /\ callReturn' = Disturbed(callReturn)
       /\ UNCHANGED <<prChanges, newestFirst, callStart, pipeVars>>

\* a fetch rejects: the awaiting function throws
RequestFailsAt(r) ==
    /\ r \in net
    /\ Abort(r.session, net \ {r})
    /\ uncaught' = [uncaught EXCEPT ![r.session] = ERR_REQUEST]
    /\ ForgetRun(r.session)
    /\ UNCHANGED <<prChanges, feed, newestFirst, pipeVars>>

\* the user reloads a page whose script has stopped
UserReloadsIn(s) ==
    /\ pc[s] = "aborted"
    /\ ReloadPage(s, { q \in net : q.session # s })
    /\ ForgetRun(s)
    /\ UNCHANGED <<prChanges, feed, newestFirst, pipeVars>>

LoadReturns == \E r \in net : LoadReturnsAt(r)

Click == \E s \in Sessions : ClickIn(s)

CommentPosted == \E r \in net : CommentPostedAt(r)

ParentCommentReturns == \E r \in net : ParentCommentReturnsAt(r)

ChangePathsReturn == \E r \in net : ChangePathsReturnAt(r)

ChangeDetailReturns == \E r \in net : ChangeDetailReturnsAt(r)

TaskAdded == \E r \in net : TaskAddedAt(r)

RequestFails == \E r \in net : RequestFailsAt(r)

UserReloads == \E s \in Sessions : UserReloadsIn(s)

Next ==
    \/ LoadReturns
    \/ Click
    \/ CommentPosted
    \/ ParentCommentReturns
    \/ ChangePathsReturn
    \/ ChangeDetailReturns
    \/ TaskAdded
    \/ RequestFails
    \/ UserReloads

Spec == Init /\ [][Next]_vars

SoloSpec == SoloInit /\ [][Next]_vars

BusySpec == BusyInit /\ [][Next]_vars

\* every request in flight is eventually answered or fails: no request hangs
Responsive ==
    /\ WF_vars(LoadReturns)
    /\ WF_vars(CommentPosted)
    /\ WF_vars(ParentCommentReturns)
    /\ WF_vars(ChangePathsReturn)
    /\ WF_vars(ChangeDetailReturns)
    /\ WF_vars(TaskAdded)

LiveSpec == SoloInit /\ [][Next]_vars /\ Responsive

(***************************************************************************)
(* Properties of the runs against the review server                        *)
(***************************************************************************)
TaskRequests(log) == SelectSeq(log, LAMBDA q : q.kind = "POST tasks")

Texts(reqs) == [k \in 1..Len(reqs) |-> reqs[k].text]

\* session t called addParentComment after session s's call had returned, and
\* the review did not change between that return and t's call
CalledInSequence(s, t) ==
    /\ s # t
    /\ callReturn[s].done
    /\ callReturn[t].done
    /\ s \in callStart[t]

\* C1: two calls of addParentComment in sequence against the same review,
\* nothing else changing the review in between, return the same comment id
\* and issue at most one POST comments request between them.
C1_EnsureIdempotent ==
    \A s, t \in Sessions :
        CalledInSequence(s, t) =>
            /\ callReturn[s].id = callReturn[t].id
            /\ Len(SelectSeq(issued[s] \o issued[t],
                             LAMBDA q : q.kind = "POST comments")) <= 1

\* C2: in every reachable state the review holds at most one comment whose
\* text is the sentinel, whatever the interleaving of the sessions.
C2_AtMostOneTrackingComment == Cardinality(TrackingComments) <= 1

\* C3: a run that completes has created its tasks in exactly the reverse of
\* the order of the pipeline's findings f1..fn (the k-th task is f(n+1-k));
\* with all analysers triggered and only /mssql/ touched the findings are
\* [volume, mssql, notify, drop, dot-equals] and the tasks are created as
\* [dot-equals, drop, notify, mssql, volume].
C3_TasksInReverseOrder ==
    \A s \in Sessions :
        completed[s] =>
            LET f == Pipeline(fetchChanges(prChanges))
                sent == Texts(TaskRequests(issued[s]))
                created == Texts(received[s])
            IN /\ Len(sent) = Len(f)
               /\ \A k \in 1..Len(f) : sent[k] = f[Len(f) + 1 - k]
               /\ created = sent
               /\ prChanges = <<JavaBig, MssqlCreate>> =>
                     /\ f = <<MSG_VOLUME, MSG_MSSQL_ONLY, MSG_NOTIFY, MSG_DROP, MSG_DOT_EQUALS>>
                     /\ created = <<MSG_DOT_EQUALS, MSG_DROP, MSG_NOTIFY, MSG_MSSQL_ONLY, MSG_VOLUME>>

C3_Witness ==
    \E s \in Sessions :
        /\ completed[s]
        /\ Len(received[s]) = 5
        /\ received[s][1].text = MSG_DOT_EQUALS
        /\ received[s][5].text = MSG_VOLUME

\* C4: a run never has more than one task creation in flight, it issues the
\* next one only when the server has carried out all the earlier ones, and
\* the server carries them out in the order of the published list.
C4_TasksStrictlySequential ==
    \A s \in Sessions :
        LET sent == TaskRequests(issued[s])
            inFlight == { q \in net : q.session = s /\ q.kind = "POST tasks" }
        IN /\ Cardinality(inFlight) <= 1
           /\ Len(sent) <= Len(received[s]) + 1
           /\ Cardinality(inFlight) = Len(sent) - Len(received[s])
           /\ received[s] = SubSeq(sent, 1, Len(received[s]))
           /\ pc[s] = "addTask" => Texts(sent) = SubSeq(runTasks[s], 1, Len(sent))

C4_Witness ==
    \E s \in Sessions :
        /\ pc[s] = "addTask"
        /\ Len(received[s]) = 2
        /\ Len(runTasks[s]) = 5
        /\ \E q \in net : q.session = s /\ q.kind = "POST tasks" /\ q.text = runTasks[s][3]

(***************************************************************************)
(* Properties of the analysers, stated on the review's diff responses      *)
(***************************************************************************)
\* positions <<file, diff, hunk, segment, line>> of the lines of a change list
LinePositions(values) ==
    UNION { UNION { UNION { UNION {
        { <<c, d, h, g, l>> : l \in 1..Len(values[c].response.diffs[d].hunks[h].segments[g].lines) }
        : g \in 1..Len(values[c].response.diffs[d].hunks[h].segments) }
        : h \in 1..Len(values[c].response.diffs[d].hunks) }
        : d \in { d \in 1..Len(values[c].response.diffs) : values[c].response.diffs[d].hasHunks } }
        : c \in { c \in 1..Len(values) : values[c].response.hasDiffs } }

SegmentAt(values, p) == values[p[1]].response.diffs[p[2]].hunks[p[3]].segments[p[4]]

TextAt(values, p) == SegmentAt(values, p).lines[p[5]].line

\* positions of the ADDED lines of the files with the given extension
AddedIn(values, extension) ==
    { p \in LinePositions(values) :
        /\ values[p[1]].extension = extension
        /\ SegmentAt(values, p).type = "ADDED" }

\* C5: before the reversal the task list is the concatenation of the four
\* analysers' findings in the order volume, synergy, drop, dot-equals; its
\* length is the sum of the four lengths (nothing deduplicated or dropped).
C5_PipelineConcatenation ==
    line = 227 =>
        /\ tasks = analyseNumberOfChanges(changes) \o analyseDBScriptSynergy(changes)
                   \o analyseDropScriptsNeeded(changes) \o analyseUseOfDotEquals(changes)
        /\ Len(tasks) = Len(analyseNumberOfChanges(changes))
                        + Len(analyseDBScriptSynergy(changes))
                        + Len(analyseDropScriptsNeeded(changes))
                        + Len(analyseUseOfDotEquals(changes))

C5_Witness ==
    /\ line = 227
    /\ Len(tasks) >= 4
    /\ analyseDBScriptSynergy(changes) # <<>>
    /\ analyseUseOfDotEquals(changes) # <<>>

\* C6: the volume analyser emits exactly one finding iff the ADDED lines of
\* 'js' files plus those of 'java' files number more than 100 (one at 101,
\* none at 100); ADDED lines of other extensions never count.
C6_VolumeThreshold ==
    line = 223 =>
        LET n == Cardinality(AddedIn(prChanges, "js"))
                 + Cardinality(AddedIn(prChanges, "java"))
        IN /\ n > 100 => returned = <<MSG_VOLUME>>
           /\ n <= 100 => returned = <<>>

C6_Witness ==
    /\ line = 223
    /\ Cardinality(AddedIn(prChanges, "js")) > 0
    /\ Cardinality(AddedIn(prChanges, "java")) > 0
    /\ Cardinality(AddedIn(prChanges, "js")) + Cardinality(AddedIn(prChanges, "java")) = 101
    /\ returned = <<MSG_VOLUME>>

\* C7: the synergy analyser emits [asymmetry, notify] when exactly one of
\* '/mssql/' and '/oracle/' occurs among the paths, [notify] when both occur,
\* nothing when neither occurs; never both asymmetry findings.
C7_Synergy ==
    line = 224 =>
        LET mssql == \E c \in DOMAIN prChanges : includes(prChanges[c].path, STR_mssql)
            oracle == \E c \in DOMAIN prChanges : includes(prChanges[c].path, STR_oracle)
        IN /\ (mssql /\ ~oracle) => returned = <<MSG_MSSQL_ONLY, MSG_NOTIFY>>
           /\ (oracle /\ ~mssql) => returned = <<MSG_ORACLE_ONLY, MSG_NOTIFY>>
           /\ (mssql /\ oracle) => returned = <<MSG_NOTIFY>>
           /\ (~mssql /\ ~oracle) => returned = <<>>
           /\ ~(\E a, b \in DOMAIN returned :
                    returned[a] = MSG_MSSQL_ONLY /\ returned[b] = MSG_ORACLE_ONLY)

C7_Witness ==
    /\ line = 224
    /\ Len(prChanges) = 2
    /\ includes(prChanges[1].path, STR_oracle)
    /\ ~includes(prChanges[1].path, STR_mssql)
    /\ ~includes(prChanges[2].path, STR_oracle)
    /\ returned = <<MSG_ORACLE_ONLY, MSG_NOTIFY>>

\* C8: the drop-script analyser emits exactly one finding iff some ADDED line
\* of an 'sql' file contains 'create table' and no ADDED line of any 'sql'
\* file contains 'drop table', both compared case-insensitively, whatever the
\* file or the order in which the lines appear.
C8_MissingDrop ==
    line = 225 =>
        LET create == \E p \in AddedIn(prChanges, "sql") :
                          includes(toLowerCase(TextAt(prChanges, p)), STR_create_table)
            drop == \E p \in AddedIn(prChanges, "sql") :
                          includes(toLowerCase(TextAt(prChanges, p)), STR_drop_table)
        IN IF create /\ ~drop THEN returned = <<MSG_DROP>> ELSE returned = <<>>

C8_Witness ==
    /\ line = 225
    /\ returned = <<>>
    /\ \E p, q \in AddedIn(prChanges, "sql") :
          /\ p[1] < q[1]
          /\ includes(TextAt(prChanges, p), <<"D", "r", "o", "p", " ", "T", "a", "b", "l", "e">>)
          /\ includes(TextAt(prChanges, q), <<"C", "R", "E", "A", "T", "E", " ", "T", "A", "B", "L", "E">>)

\* C9: the dot-equals analyser emits exactly one finding iff some ADDED line
\* of a 'java' file contains '.equals' and not 'StringUtils' on that line; at
\* most one finding however many such lines; none when every '.equals' line
\* also contains 'StringUtils'.
C9_DotEquals ==
    line = 227 =>
        LET hit == \E p \in AddedIn(prChanges, "java") :
                      /\ includes(TextAt(prChanges, p), STR_dot_equals)
                      /\ ~includes(TextAt(prChanges, p), STR_StringUtils)
        IN IF hit THEN returned = <<MSG_DOT_EQUALS>> ELSE returned = <<>>

C9_Witness ==
    /\ line = 227
    /\ returned = <<MSG_DOT_EQUALS>>
    /\ \E p \in AddedIn(prChanges, "java") :
          includes(TextAt(prChanges, p), STR_StringUtils)
    /\ Cardinality({ p \in AddedIn(prChanges, "java") :
                        /\ includes(TextAt(prChanges, p), STR_dot_equals)
                        /\ ~includes(TextAt(prChanges, p), STR_StringUtils) }) >= 2

\* the ADDED lines of one file's diff response, in diff order
AddedLines(file) ==
    LET segs == IF ~file.response.hasDiffs THEN <<>>
                ELSE Flatten([d \in 1..Len(file.response.diffs) |->
                         IF ~file.response.diffs[d].hasHunks THEN <<>>
                         ELSE Flatten([h \in 1..Len(file.response.diffs[d].hunks) |->
                                  file.response.diffs[d].hunks[h].segments])])
    IN Flatten([g \in 1..Len(segs) |->
           IF segs[g].type = "ADDED" THEN segs[g].lines ELSE <<>>])

\* the sample files that an analyser scanning the given extensions cannot
\* tell from the file: same path, name and extension, and the same ADDED
\* lines if the extension is scanned
FileTwins(file, extensions) ==
    { f \in FileSamples :
        /\ f.path = file.path
        /\ f.name = file.name
        /\ f.extension = file.extension
        /\ f.extension \in extensions => AddedLines(f) = AddedLines(file) }

RECURSIVE Twins(_, _)
Twins(values, extensions) ==
    IF values = <<>> THEN { <<>> }
    ELSE { <<f>> \o rest : f \in FileTwins(Head(values), extensions),
                           rest \in Twins(Tail(values), extensions) }

\* C10: the findings of the volume, drop-script and dot-equals analysers are
\* the same for any two change lists with the same files and the same ADDED
\* lines in the files of the scanned extension, however they differ in
\* REMOVED and CONTEXT segments or in files of other extensions.
C10_OnlyAddedLinesOfExtension ==
    /\ line = 223 =>
          \A other \in Twins(prChanges, {"js", "java"}) :
              analyseNumberOfChanges(fetchChanges(other)) = returned
    /\ line = 225 =>
          \A other \in Twins(prChanges, {"sql"}) :
              analyseDropScriptsNeeded(fetchChanges(other)) = returned
    /\ line = 227 =>
          \A other \in Twins(prChanges, {"java"}) :
              analyseUseOfDotEquals(fetchChanges(other)) = returned

C10_Witness ==
    /\ line = 227
    /\ returned = <<>>
    /\ \E other \in Twins(prChanges, {"java"}) :
          \E c \in DOMAIN other, p \in LinePositions(other) :
              /\ other[c].extension = "java"
              /\ other[c].response # prChanges[c].response
              /\ p[1] = c
              /\ SegmentAt(other, p).type = "REMOVED"
              /\ includes(TextAt(other, p), STR_dot_equals)

(***************************************************************************)
(* Properties of the change data                                           *)
(***************************************************************************)
\* String.prototype.toLowerCase on the extensions a server may report
LowerCasedExtension(extension) ==
    CASE extension = "JAVA" -> "java"
      [] extension = "Js" -> "js"
      [] extension = "SQL" -> "sql"
      [] OTHER -> extension

\* the change list with every reported extension lower-cased
LowerCasedList(values) ==
    [c \in DOMAIN values |-> [values[c] EXCEPT !.extension = LowerCasedExtension(@)]]

\* C11: every changed file handed to the analysers carries a lower-cased
\* extension, and the findings are those of the same change list reported
\* with lower-case extensions ('JAVA' is scanned exactly like 'java').
C11_ExtensionLowerCased ==
    line = 229 =>
        /\ \A c \in DOMAIN changes :
              changes[c].extension = LowerCasedExtension(changes[c].extension)
        /\ tasks = reverse(Pipeline(fetchChanges(LowerCasedList(prChanges))))

(***************************************************************************)
(* Properties of failing runs                                              *)
(***************************************************************************)
\* the requests of session s that are in flight
InFlight(s) == { q \in net : q.session = s }

\* a step loses or alters no activity of the review: tasks are only added
NothingRolledBack ==
    \A k \in DOMAIN feed : \E j \in DOMAIN feed' :
        /\ feed'[j].hasComment = feed[k].hasComment
        /\ feed'[j].comment.id = feed[k].comment.id
        /\ feed'[j].comment.text = feed[k].comment.text
        /\ Len(feed'[j].comment.tasks) >= Len(feed[k].comment.tasks)
        /\ SubSeq(feed'[j].comment.tasks, 1, Len(feed[k].comment.tasks))
              = feed[k].comment.tasks

\* C12: a step in which a request of a run fails leaves the run aborted with
\* no request in flight and no completion signalled; an aborted run issues
\* nothing and signals nothing until the user loads the page anew; and no
\* step removes or alters the tracking comment or a task already created.
C12_FailureAbortsRun ==
    [][ /\ \A r \in net :
              RequestFailsAt(r) =>
                  /\ pc'[r.session] = "aborted"
                  /\ InFlight(r.session)' = {}
                  /\ ~completed'[r.session]
        /\ \A s \in Sessions :
              pc[s] = "aborted" =>
                  \/ /\ pc'[s] = "aborted"
                     /\ InFlight(s)' = {}
                     /\ ~completed'[s]
                  \/ UserReloadsIn(s)
        /\ NothingRolledBack ]_vars

C12_Witness ==
    /\ pc[1] = "aborted"
    /\ uncaught[1] = ERR_REQUEST
    /\ Len(Pipeline(fetchChanges(prChanges))) = 5
    /\ \E k \in TrackingComments : Len(feed[k].comment.tasks) = 2

\* C13: when the lookup that follows the create request finds no comment
\* with the sentinel text, the run has issued nothing but the create request
\* and the lookup, the step leaves it aborted on the undefined comment with
\* nothing in flight and no completion signalled, and the run stays silent
\* until the user loads the page anew.
C13_MissingTrackingComment ==
    [][ /\ \A r \in net :
              (ParentCommentReturnsAt(r) /\ getParentComment(Activities(feed)) = 0) =>
                  /\ Len(issued[r.session]) = 2
                  /\ issued[r.session][1].kind = "POST comments"
                  /\ issued[r.session][2] = r
                  /\ pc'[r.session] = "aborted"
                  /\ uncaught'[r.session] = ERR_UNDEFINED
                  /\ InFlight(r.session)' = {}
                  /\ ~completed'[r.session]
        /\ \A s \in Sessions :
              uncaught[s] = ERR_UNDEFINED =>
                  \/ /\ pc'[s] = "aborted"
                     /\ InFlight(s)' = {}
                     /\ ~completed'[s]
                  \/ UserReloadsIn(s) ]_vars

C13_Witness ==
    /\ pc[1] = "aborted"
    /\ uncaught[1] = ERR_UNDEFINED
    /\ TrackingComments # {}
    /\ getParentComment(Activities(feed)) = 0
    /\ \A k \in DOMAIN feed : feed[k].comment.tasks = <<>>

(***************************************************************************)
(* Properties of repeated analyses of one review                           *)
(***************************************************************************)
\* C14: a run started on a review whose tracking comment an earlier run has
\* already obtained anchors every task it creates to the id that run used,
\* and when it completes it has issued one task per finding, whatever tasks
\* the review already holds.
C14_RerunSharesTrackingComment ==
    \A s, t \in Sessions :
        CalledInSequence(s, t) =>
            /\ \A k \in DOMAIN issued[t] :
                  issued[t][k].kind = "POST tasks" =>
                      issued[t][k].anchorId = callReturn[s].id
            /\ completed[t] =>
                  Len(TaskRequests(issued[t])) = Len(Pipeline(fetchChanges(prChanges)))

(***************************************************************************)
(* Properties of the change data retrieval                                 *)
(***************************************************************************)
DiffRequests(log) == SelectSeq(log, LAMBDA q : q.kind = "GET diff")

Paths(files) == [k \in 1..Len(files) |-> files[k].path]

\* C15: a run has at most one diff request in flight; it requests the diffs
\* in the order of the change list, the next one only when the earlier ones
\* are received and attached, and none before the change list is received;
\* the files handed to the analysers are those of the change list, in the
\* same order and number.
C15_DiffsSerialInOrder ==
    \A s \in Sessions :
        LET sent == DiffRequests(issued[s])
            inFlight == { q \in net : q.session = s /\ q.kind = "GET diff" }
        IN /\ Cardinality(inFlight) <= 1
           /\ Len(sent) <= Len(prChanges)
           /\ Paths(sent) = SubSeq(Paths(prChanges), 1, Len(sent))
           /\ sent # <<>> =>
                 /\ \E k \in DOMAIN issued[s] :
                       /\ issued[s][k].kind = "GET changes"
                       /\ \A j \in DOMAIN issued[s] :
                             issued[s][j].kind = "GET diff" => k < j
                 /\ \A q \in net : q.session = s => q.kind # "GET changes"
           /\ pc[s] = "fetchChangeDetail" =>
                 /\ Len(sent) = i[s]
                 /\ inFlight = { sent[i[s]] }
                 /\ Len(changedFiles[s]) = Len(prChanges)
                 /\ \A k \in 1..(i[s] - 1) :
                       changedFiles[s][k] = fetchChanges(prChanges)[k]
           /\ pc[s] = "addTask" =>
                 /\ Len(sent) = Len(prChanges)
                 /\ inFlight = {}
                 /\ changedFiles[s] = fetchChanges(prChanges)

C15_Witness ==
    /\ pc[1] = "fetchChangeDetail"
    /\ i[1] = 2
    /\ Len(prChanges) = 2
    /\ changedFiles[1][1] = fetchChanges(prChanges)[1]
    /\ \E q \in net : q.kind = "GET diff" /\ q.path = prChanges[2].path

(***************************************************************************)
(* Termination of a run                                                    *)
(***************************************************************************)
Kinds(log) == [k \in 1..Len(log) |-> log[k].kind]

\* the requests of a whole run on a review with n files and m findings
WholeRun(n, m) ==
    <<"POST comments", "GET activities", "GET changes">>
    \o [k \in 1..n |-> "GET diff"] \o [k \in 1..m |-> "POST tasks"]

\* C16: with no request hanging, a run that was started ends by signalling
\* completion unless a request fails or the lookup misses the comment (then an
\* exception is left uncaught); completion is signalled only after the comment
\* step, the change fetch and one carried-out task creation per finding, in
\* that order, and the run does nothing after it (the signal is given once).
C16_RunCompletes ==
    /\ \A s \in Sessions :
          (pc[s] = "addParentComment") ~> (completed[s] \/ uncaught[s] # "")
    /\ [](\A s \in Sessions :
             completed[s] =>
                 /\ Kinds(issued[s])
                       = WholeRun(Len(prChanges), Len(Pipeline(fetchChanges(prChanges))))
                 /\ Len(received[s]) = Len(Pipeline(fetchChanges(prChanges)))
                 /\ pc[s] = "loading"
                 /\ InFlight(s) = { LoadRequest(s) }
                 /\ uncaught[s] = "")

C16_Witness ==
    /\ completed[1]
    /\ pc[1] = "loading"
    /\ Kinds(issued[1]) = WholeRun(2, 5)
    /\ Len(received[1]) = 5

(***************************************************************************)
(* Properties of the task requests                                         *)
(***************************************************************************)
\* C17: every task creation request of a run is OPEN, anchored to a COMMENT,
\* namely to the id that the run's own tracking comment lookup returned, and
\* that comment's text is the sentinel; every task the review holds is OPEN
\* and sits on a comment whose text is the sentinel.
C17_TasksOpenOnTrackingComment ==
    /\ \A s \in Sessions : \A k \in DOMAIN issued[s] :
          issued[s][k].kind = "POST tasks" =>
              /\ issued[s][k].state = "OPEN"
              /\ issued[s][k].anchorType = "COMMENT"
              /\ callReturn[s].done
              /\ issued[s][k].anchorId = callReturn[s].id
              /\ \E j \in TrackingComments : feed[j].comment.id = issued[s][k].anchorId
    /\ \A j \in DOMAIN feed :
          feed[j].comment.tasks # <<>> =>
              /\ j \in TrackingComments
              /\ \A k \in DOMAIN feed[j].comment.tasks :
                    feed[j].comment.tasks[k].state = "OPEN"

C17_Witness ==
    \E s, t \in Sessions :
        /\ TaskRequests(issued[s]) # <<>>
        /\ TaskRequests(issued[t]) # <<>>
        /\ callReturn[s].id # callReturn[t].id
        /\ \E j \in TrackingComments :
              /\ feed[j].comment.id = callReturn[t].id
              /\ feed[j].comment.tasks # <<>>

(***************************************************************************)
(* Properties of extractSegments                                           *)
(***************************************************************************)
\* positions <<diff, hunk, segment>> of the segments of a diff response
SegmentPositions(response) ==
    IF ~response.hasDiffs THEN {}
    ELSE UNION { UNION {
        { <<d, h, g>> : g \in 1..Len(response.diffs[d].hunks[h].segments) }
        : h \in 1..Len(response.diffs[d].hunks) }
        : d \in { d \in 1..Len(response.diffs) : response.diffs[d].hasHunks } }

\* p comes before q in the diff
Precedes(p, q) ==
    \/ p[1] < q[1]
    \/ p[1] = q[1] /\ p[2] < q[2]
    \/ p[1] = q[1] /\ p[2] = q[2] /\ p[3] < q[3]

\* the changed files that have at least one segment
WithEdits(files) == SelectSeq(files, LAMBDA file : file.segments # <<>>)

C19_LookupScansWholeFeed ==
    (\E r \in net : r.kind = "GET activities") =>
        LET values == Activities(feed)
            found == getParentComment(values)
        IN /\ TrackingComments # {} => found # 0
           /\ found # 0 => values[found].comment.text = PARENT_COMMENT_TEXT

(***************************************************************************)
(* Properties of what a page load displays                                 *)
(***************************************************************************)
\* C20: a page load that displays 'All good!' follows a run that completed
\* and whose pipeline produced no finding, and a page load that offers no
\* Analyse button follows a run that completed (stated for the review that one
\* page analyses, where the run before a page load is the only run there is).
C20_AllGoodMeansAnalysed ==
    [][ /\ (pc[1] = "loading" /\ pc'[1] = "allgood") =>
              /\ completed[1]
              /\ Pipeline(fetchChanges(prChanges)) = <<>>
        /\ (pc[1] = "loading" /\ pc'[1] \in {"allgood", "list"}) =>
              completed[1] ]_vars

=============================================================================
